---- MODULE Spec2Model ----
(***************************************************************************)
(* Model of the notation -> sound pipeline of static/js/playback.js:       *)
(* the ABC tokenizer (parseABCNotation), the pitch mapper (noteToMIDI)     *)
(* and the playback scheduler (playAudio, playNotes, pauseAudio,           *)
(* stopAudio) with its module-level state.                                 *)
(*                                                                         *)
(* A text is a sequence of one-character strings.  A duration is a         *)
(* rational [num, den] in lowest terms; den = 0 stands for the two         *)
(* non-finite results of a JavaScript division by zero (num = 1 is         *)
(* Infinity, num = 0 is NaN).                                              *)
(***************************************************************************)
EXTENDS Integers, Sequences, FiniteSets, Bags, TLC

(***************************************************************************)
(* Bounds of the model.                                                    *)
(***************************************************************************)
\* Activations of playAudio that may be in flight (awaiting or looping) at once.
MaxCalls == 2
\* Longest tune of the uninterrupted-playback specification.
MaxSoloLen == 101
\* Longest text of the tokenizer specification, over ParseAlphabet.
MaxTextLen == 4
\* Most octave marks after a note letter in the note tokens of that specification.
MaxMarks == 6

\* The number of generations added to the history.
MaxGenerations == 11

\* The number of items a user marks as favorites.
MaxFavorites == 1

(***************************************************************************)
(* Character classes used by the tokenizer.                                *)
(***************************************************************************)
UpperCase ==
    {"A", "B", "C", "D", "E", "F", "G", "H", "I", "J", "K", "L", "M",
     "N", "O", "P", "Q", "R", "S", "T", "U", "V", "W", "X", "Y", "Z"}

WhiteSpace == {" ", "\t", "\r"}

BarChars == {"|", ":", "[", "]"}

Decorations == {"{", "}", "~", "!", "+", "."}

\* A faulty variant of NoteLetters: the upper-case letters only.
NoteLettersUpperCase == {"A", "B", "C", "D", "E", "F", "G"}

NoteLetters ==
    {"A", "B", "C", "D", "E", "F", "G", "a", "b", "c", "d", "e", "f", "g"}

\* A faulty variant of Accidentals: only the sharp sign.
AccidentalsSharpOnly == {"^"}

Accidentals == {"^", "_", "="}

OctaveMarks == {"'", ","}

Digits == {"0", "1", "2", "3", "4", "5", "6", "7", "8", "9"}

\* parseInt of a one-digit string.
ParseInt(ch) ==
    CASE ch = "0" -> 0 [] ch = "1" -> 1 [] ch = "2" -> 2 [] ch = "3" -> 3
      [] ch = "4" -> 4 [] ch = "5" -> 5 [] ch = "6" -> 6 [] ch = "7" -> 7
      [] ch = "8" -> 8 [] ch = "9" -> 9

(***************************************************************************)
(* Durations: JavaScript numbers that are quotients of two digits.         *)
(***************************************************************************)
RECURSIVE GCD(_, _)
GCD(a, b) == IF b = 0 THEN a ELSE GCD(b, a % b)

\* The number n / d.
Quot(n, d) ==
    IF d = 0
    THEN [num |-> IF n = 0 THEN 0 ELSE 1, den |-> 0]
    ELSE LET g == GCD(n, d) IN [num |-> n \div g, den |-> d \div g]

\* duration / m for a duration that is still a whole number.
DivideDuration(duration, m) == Quot(duration.num, duration.den * m)

(***************************************************************************)
(* noteToMIDI: the pitch mapper.                                           *)
(***************************************************************************)
\* A faulty variant of NoteMap: upper-case C is in the table.
NoteMapWithC(baseNote) ==
    CASE baseNote = <<"C">> -> 60
      [] baseNote = <<"D">> -> 62 [] baseNote = <<"E">> -> 64
      [] baseNote = <<"F">> -> 65 [] baseNote = <<"G">> -> 67
      [] baseNote = <<"A">> -> 69 [] baseNote = <<"B">> -> 71
      [] baseNote = <<"c">> -> 72 [] baseNote = <<"d">> -> 74
      [] baseNote = <<"e">> -> 76 [] baseNote = <<"f">> -> 77
      [] baseNote = <<"g">> -> 79 [] baseNote = <<"a">> -> 81
      [] baseNote = <<"b">> -> 83
      [] OTHER -> 64

\* noteMap[baseNote] || 64
NoteMap(baseNote) ==
    CASE baseNote = <<"D">> -> 62 [] baseNote = <<"E">> -> 64
      [] baseNote = <<"F">> -> 65 [] baseNote = <<"G">> -> 67
      [] baseNote = <<"A">> -> 69 [] baseNote = <<"B">> -> 71
      [] baseNote = <<"c">> -> 72 [] baseNote = <<"d">> -> 74
      [] baseNote = <<"e">> -> 76 [] baseNote = <<"f">> -> 77
      [] baseNote = <<"g">> -> 79 [] baseNote = <<"a">> -> 81
      [] baseNote = <<"b">> -> 83
      [] OTHER -> 64

\* note.replace(/[',]/g, '')
StripOctaveMarks(note) == SelectSeq(note, LAMBDA ch : ch \notin OctaveMarks)

\* (note.match(/<ch>/g) || []).length
CountChar(note, mark) == Len(SelectSeq(note, LAMBDA ch : ch = mark))

Max(a, b) == IF a >= b THEN a ELSE b

Min(a, b) == IF a <= b THEN a ELSE b

\* A faulty variant of noteToMIDI: the result is not clamped.
noteToMIDIUnclamped(note) ==
    NoteMap(StripOctaveMarks(note))
        + 12 * CountChar(note, "'") - 12 * CountChar(note, ",")

noteToMIDI(note) ==
    LET midi == NoteMap(StripOctaveMarks(note))
                + 12 * CountChar(note, "'")
                - 12 * CountChar(note, ",")
    IN  Max(0, Min(127, midi))

(***************************************************************************)
(* parseABCNotation: the tokenizer.                                        *)
(***************************************************************************)
\* A faulty variant of getDefaultNotes: the scale starts one note lower.
DefaultNotesFromD ==
    << [pitch |-> 62, duration |-> Quot(1, 1), rest |-> FALSE],
       [pitch |-> 67, duration |-> Quot(1, 1), rest |-> FALSE],
       [pitch |-> 69, duration |-> Quot(1, 1), rest |-> FALSE],
       [pitch |-> 71, duration |-> Quot(1, 1), rest |-> FALSE],
       [pitch |-> 76, duration |-> Quot(1, 1), rest |-> FALSE],
       [pitch |-> 79, duration |-> Quot(1, 1), rest |-> FALSE],
       [pitch |-> 81, duration |-> Quot(1, 1), rest |-> FALSE],
       [pitch |-> 83, duration |-> Quot(1, 1), rest |-> FALSE] >>

getDefaultNotes ==
    << [pitch |-> 64, duration |-> Quot(1, 1), rest |-> FALSE],
       [pitch |-> 67, duration |-> Quot(1, 1), rest |-> FALSE],
       [pitch |-> 69, duration |-> Quot(1, 1), rest |-> FALSE],
       [pitch |-> 71, duration |-> Quot(1, 1), rest |-> FALSE],
       [pitch |-> 76, duration |-> Quot(1, 1), rest |-> FALSE],
       [pitch |-> 79, duration |-> Quot(1, 1), rest |-> FALSE],
       [pitch |-> 81, duration |-> Quot(1, 1), rest |-> FALSE],
       [pitch |-> 83, duration |-> Quot(1, 1), rest |-> FALSE] >>

\* notation.split('\n'): the pieces of the text between its line breaks
\* (one more piece than breaks, the pieces possibly empty).
SplitLines(text) ==
    LET breaks   == { i \in 1..Len(text) : text[i] = "\n" }
        \* the position of the k-th break; 0 and Len + 1 bracket the text
        Break(k) == IF k = 0 THEN 0
                    ELSE IF k > Cardinality(breaks) THEN Len(text) + 1
                    ELSE CHOOSE i \in breaks :
                           Cardinality({ j \in breaks : j < i }) = k - 1
    IN  [k \in 1..(Cardinality(breaks) + 1) |->
           SubSeq(text, Break(k - 1) + 1, Break(k) - 1)]

\* A faulty variant of IsHeader: only the letters of the known fields.
IsHeaderOfKnownField(line) ==
    /\ Len(line) >= 2
    /\ line[1] \in {"X", "T", "M", "L", "K", "R", "V"}
    /\ line[2] = ":"

\* line.match(/^[A-Z]:/)
IsHeader(line) == Len(line) >= 2 /\ line[1] \in UpperCase /\ line[2] = ":"

\* line.trim() === ''
IsBlank(line) == \A k \in 1..Len(line) : line[k] \in WhiteSpace

\* The first position from i on whose character is not in class (Len + 1 if none).
RECURSIVE SkipWhile(_, _, _)
SkipWhile(line, i, class) ==
    IF i <= Len(line) /\ line[i] \in class
    THEN SkipWhile(line, i + 1, class)
    ELSE i

\* A faulty variant of CloseQuote: the annotation is taken to end at once.
CloseQuoteAtOnce(line, i) == i

\* The position of the quote closing an annotation opened before i (Len + 1 if none).
RECURSIVE CloseQuote(_, _)
CloseQuote(line, i) ==
    IF i <= Len(line) /\ line[i] # "\""
    THEN CloseQuote(line, i + 1)
    ELSE i

\* A faulty variant of ParseDuration: a slash without a digit divides by nothing.
ParseDurationKeepsWhole(line, i) ==
    LET hasNum == i <= Len(line) /\ line[i] \in Digits
        whole  == IF hasNum THEN Quot(ParseInt(line[i]), 1) ELSE Quot(1, 1)
        j      == IF hasNum THEN i + 1 ELSE i
    IN  IF j <= Len(line) /\ line[j] = "/"
        THEN IF j + 1 <= Len(line) /\ line[j + 1] \in Digits
             THEN [duration |-> DivideDuration(whole, ParseInt(line[j + 1])),
                   next |-> j + 2]
             ELSE [duration |-> whole, next |-> j + 1]
        ELSE [duration |-> whole, next |-> j]

\* The optional duration at position i: its value and the position after it.
ParseDuration(line, i) ==
    LET hasNum == i <= Len(line) /\ line[i] \in Digits
        whole  == IF hasNum THEN Quot(ParseInt(line[i]), 1) ELSE Quot(1, 1)
        j      == IF hasNum THEN i + 1 ELSE i
    IN  IF j <= Len(line) /\ line[j] = "/"
        THEN IF j + 1 <= Len(line) /\ line[j + 1] \in Digits
             THEN [duration |-> DivideDuration(whole, ParseInt(line[j + 1])),
                   next |-> j + 2]
             ELSE [duration |-> DivideDuration(whole, 2), next |-> j + 1]
        ELSE [duration |-> whole, next |-> j]

\* A faulty variant of ScanLine: a rest is pushed as a silent note.
RECURSIVE ScanLineRestAsNote(_, _, _)
ScanLineRestAsNote(line, i, notes) ==
    IF i > Len(line) THEN notes
    ELSE LET char == line[i] IN
      IF char = "\""
      THEN ScanLineRestAsNote(line, CloseQuote(line, i + 1) + 1, notes)
      ELSE IF char \in BarChars THEN ScanLineRestAsNote(line, i + 1, notes)
      ELSE IF char = " " THEN ScanLineRestAsNote(line, i + 1, notes)
      ELSE IF char \in Decorations THEN ScanLineRestAsNote(line, i + 1, notes)
      ELSE IF char \in NoteLetters
      THEN LET a    == SkipWhile(line, i + 1, Accidentals)
               o    == SkipWhile(line, a, OctaveMarks)
               note == << char >> \o SubSeq(line, a, o - 1)
               d    == ParseDuration(line, o)
           IN  ScanLineRestAsNote(line, d.next,
                        Append(notes, [pitch |-> noteToMIDI(note),
                                       duration |-> d.duration,
                                       rest |-> FALSE]))
      ELSE IF char = "z"
      THEN LET d == ParseDuration(line, i + 1)
           IN  ScanLineRestAsNote(line, d.next,
                        Append(notes, [pitch |-> 0,
                                       duration |-> d.duration,
                                       rest |-> FALSE]))
      ELSE ScanLineRestAsNote(line, i + 1, notes)

\* The character loop over one line, from position i, appending to notes.
RECURSIVE ScanLine(_, _, _)
ScanLine(line, i, notes) ==
    IF i > Len(line) THEN notes
    ELSE LET char == line[i] IN
      IF char = "\"" THEN ScanLine(line, CloseQuote(line, i + 1) + 1, notes)
      ELSE IF char \in BarChars THEN ScanLine(line, i + 1, notes)
      ELSE IF char = " " THEN ScanLine(line, i + 1, notes)
      ELSE IF char \in Decorations THEN ScanLine(line, i + 1, notes)
      ELSE IF char \in NoteLetters
      THEN LET a    == SkipWhile(line, i + 1, Accidentals)
               o    == SkipWhile(line, a, OctaveMarks)
               note == << char >> \o SubSeq(line, a, o - 1)
               d    == ParseDuration(line, o)
           IN  ScanLine(line, d.next,
                        Append(notes, [pitch |-> noteToMIDI(note),
                                       duration |-> d.duration,
                                       rest |-> FALSE]))
      ELSE IF char = "z"
      THEN LET d == ParseDuration(line, i + 1)
           IN  ScanLine(line, d.next,
                        Append(notes, [pitch |-> 0,
                                       duration |-> d.duration,
                                       rest |-> TRUE]))
      ELSE ScanLine(line, i + 1, notes)

\* A faulty variant of ScanLines: the notes of a line come after those of
\* the lines that follow it.
RECURSIVE ScanLinesReversed(_, _)
ScanLinesReversed(lines, k) ==
    IF k > Len(lines) THEN << >>
    ELSE IF IsHeader(lines[k]) \/ IsBlank(lines[k])
         THEN ScanLinesReversed(lines, k + 1)
         ELSE ScanLinesReversed(lines, k + 1) \o ScanLine(lines[k], 1, << >>)

\* The loop over the lines, from line k: headers and blank lines are
\* skipped, the notes of the other lines are pushed in order.
RECURSIVE ScanLines(_, _)
ScanLines(lines, k) ==
    IF k > Len(lines) THEN << >>
    ELSE IF IsHeader(lines[k]) \/ IsBlank(lines[k])
         THEN ScanLines(lines, k + 1)
         ELSE ScanLine(lines[k], 1, << >>) \o ScanLines(lines, k + 1)

\* A faulty variant of parseABCNotation: no default sequence.
ParseWithoutFallback(notation) == ScanLines(SplitLines(notation), 1)

parseABCNotation(notation) ==
    LET notes == ScanLines(SplitLines(notation), 1)
    IN  IF Len(notes) = 0 THEN getDefaultNotes ELSE notes

(***************************************************************************)
(* The notation buffers of the model (the text of the musicCode element).  *)
(***************************************************************************)
\* The sentinel playAudio compares with; "U+1F3BC" stands for its first character.
Placeholder ==
    << "U+1F3BC", " ", "N", "o", " ", "m", "u", "s", "i", "c", " ",
       "g", "e", "n", "e", "r", "a", "t", "e", "d", " ", "y", "e", "t", ".",
       " ", "C", "l", "i", "c", "k", " ", "\"", "G", "e", "n", "e", "r",
       "a", "t", "e", " ", "M", "u", "s", "i", "c", "\"", " ", "t", "o",
       " ", "s", "t", "a", "r", "t", "." >>

\* "K:G\nAB|z2 c/"
TuneWithRest ==
    << "K", ":", "G", "\n", "A", "B", "|", "z", "2", " ", "c", "/" >>

\* "z e"
TuneRestFirst == << "z", " ", "e" >>

\* "c,,,,,,A": the first note is lowered to pitch 0.
TuneZeroPitch == << "c", ",", ",", ",", ",", ",", ",", "A" >>

\* The texts a generation result or a history item may put in the buffer.
Notations == { << >>, TuneWithRest, TuneRestFirst, TuneZeroPitch }

\* A tune of n notes "c", in lines of eight: "cccccccc\ncccccccc\n...".
SoloTune(n) ==
    [k \in 1..(n + (n - 1) \div 8) |-> IF k % 9 = 0 THEN "\n" ELSE "c"]

SoloNotations == { SoloTune(n) : n \in 1..MaxSoloLen }

\* The characters of the texts given to the tokenizer: a lower-case note, a
\* note that is also a header letter, the rest, two digits, and the marks
\* the tokenizer treats specially.
ParseAlphabet ==
    {"c", "A", "z", "0", "2", "/", "\n", ":", "\"", "'", ",", "^"}

\* Every text of at most MaxTextLen characters of ParseAlphabet.
Texts == UNION { [1..n -> ParseAlphabet] : n \in 0..MaxTextLen }

\* A note letter followed by at most MaxMarks octave marks.
NoteTokens ==
    { << l >> \o m : l \in NoteLetters,
                     m \in UNION { [1..n -> OctaveMarks] : n \in 0..MaxMarks } }

\* "X:1\nT:Foo\n"
HeadersOnly ==
    << "X", ":", "1", "\n", "T", ":", "F", "o", "o", "\n" >>

\* "X:1\nK:G\nAB cd|z2 e2|"
TuneExample ==
    << "X", ":", "1", "\n", "K", ":", "G", "\n", "A", "B", " ", "c", "d",
       "|", "z", "2", " ", "e", "2", "|" >>

\* "[c2]{A}~z!+.": notes and a rest among brackets and decorations.
TuneWithSymbols ==
    << "[", "c", "2", "]", "{", "A", "}", "~", "z", "!", "+", "." >>

\* "A:cz\nA2\nK:c\nz": two header lines with notes in them, two lines of music.
TuneUnderHeaders ==
    << "A", ":", "c", "z", "\n", "A", "2", "\n", "K", ":", "c", "\n", "z" >>

\* " \t\n|:xy\n~.": a text with no header, no note and no rest.
Garbage == << " ", "\t", "\n", "|", ":", "x", "y", "\n", "~", "." >>

\* Longer texts: headers, blank lines, bars, other characters, long numbers.
ExampleTexts ==
    { HeadersOnly, TuneExample,
      << "c", "1", "2" >>, << "c", "/", "1", "6" >>, << "c", "3", "/" >>,
      << "z", "1", "2", "/", "1", "6" >>, Garbage, TuneUnderHeaders,
      TuneWithSymbols }

\* A note letter, one or two accidental signs, then an octave mark or a
\* duration or both or neither.
MarkedNotes ==
    { << l >> \o m \o t :
        l \in NoteLetters,
        m \in UNION { [1..n -> {"^", "_", "="}] : n \in 1..2 },
        t \in { << >>, << "'" >>, << ",", "2" >>, << "3", "/" >>,
                << "/", "4" >> } }

ParseInputs == Texts \cup NoteTokens \cup MarkedNotes \cup ExampleTexts

(***************************************************************************)
(* The state of playback.js and of the collaborators it talks to.          *)
(***************************************************************************)
VARIABLES
    synth,              \* "PolySynth", or "null" when its construction threw
    toneContext,        \* Tone.context.state
    musicCode,          \* textContent of the musicCode element
    isPlaying,
    currentNotes,
    currentNoteIndex,
    playbackStatus,     \* text of the playbackStatus element
    playBtn,            \* [disabled |-> BOOLEAN]
    pauseBtn,
    stopBtn,
    calls,              \* the bag of activations of playAudio in flight
    runLog,             \* the events the loops handled since the last start
    history,            \* the array stored under 'history' in localStorage
    generated,          \* the number of identifiers generateUUID has issued
    downloaded,         \* the file of the last click on a download link
    ev                  \* what the last handler execution did

vars ==
    << synth, toneContext, musicCode, isPlaying, currentNotes,
       currentNoteIndex, playbackStatus, playBtn, pauseBtn, stopBtn, calls,
       runLog, history, generated, downloaded, ev >>

\* What the playback handlers leave alone.
page == << history, generated, downloaded >>

\* An activation of playAudio suspended in "await Tone.start()"; it has read
\* the text of the buffer.
Awaiting(notation) == [pc |-> "await", notation |-> notation, totalNotes |-> 0]

\* An activation suspended in the wait of playNotes: a live scheduling loop,
\* with the length it read when it started.
Sleeping(totalNotes) ==
    [pc |-> "sleep", notation |-> << >>, totalNotes |-> totalNotes]

\* The bag b with one copy of activation a added, or removed.
With(b, a) == b (+) SetToBag({a})

Without(b, a) == b (-) SetToBag({a})

\* The number of live scheduling loops.
LiveLoops ==
    LET S == { a \in BagToSet(calls) : a.pc = "sleep" }
    IN  BagCardinality([a \in S |-> CopiesIn(a, calls)])

\* The text and the percentage of a status line.
Status(text, progress) == [text |-> text, progress |-> progress]

Enabled == [disabled |-> FALSE]

Disabled == [disabled |-> TRUE]

\* The values a handler has computed so far, before it returns or suspends.
Current ==
    [isPlaying |-> isPlaying, currentNotes |-> currentNotes,
     currentNoteIndex |-> currentNoteIndex, playbackStatus |-> playbackStatus,
     playBtn |-> playBtn, pauseBtn |-> pauseBtn, stopBtn |-> stopBtn,
     runLog |-> runLog]

\* The record of a handler execution: the handler, how it ended, the calls
\* it made to the synthesizer (triggerRelease, triggerAttackRelease) and to
\* showError, the index of the event it read, the cursor it found, and the
\* last two transport operations that ran ("same": this handler is none).
Event(op, outcome, released, triggered, index, error, transport) ==
    [op |-> op, outcome |-> outcome, released |-> released,
     triggered |-> triggered, index |-> index, error |-> error,
     fromIndex |-> currentNoteIndex,
     transport |-> IF transport = "same" THEN ev.transport ELSE transport,
     prevTransport |-> IF transport = "same" THEN ev.prevTransport
                       ELSE ev.transport]

\* The state when the page has loaded, with one of texts in the buffer.  The
\* controls are as the page template leaves them: play enabled, the others not.
InitWith(texts) ==
    /\ synth \in {"PolySynth", "null"}
    /\ toneContext \in {"suspended", "running"}
    /\ musicCode \in texts
    /\ isPlaying = FALSE
    /\ currentNotes = << >>
    /\ currentNoteIndex = 0
    /\ playbackStatus = Status("", -1)
    /\ playBtn = Enabled
    /\ pauseBtn = Disabled
    /\ stopBtn = Disabled
    /\ calls = EmptyBag
    /\ runLog = << >>
    /\ history = << >>
    /\ generated = 0
    /\ downloaded = [made |-> FALSE, content |-> << >>]
    /\ ev = [op |-> "init", outcome |-> "none", released |-> 0,
             triggered |-> FALSE, index |-> -1, error |-> "",
             fromIndex |-> 0, transport |-> "none",
             prevTransport |-> "none"]

Init == InitWith({Placeholder})

(***************************************************************************)
(* playNotes: the scheduling loop.                                         *)
(***************************************************************************)
\* A faulty variant of LoopContinues: the loop does not look at isPlaying.
LoopIgnoresPlaying(index, totalNotes, playing) == index < totalNotes

\* The condition of the while loop.
LoopContinues(index, totalNotes, playing) == index < totalNotes /\ playing

\* A faulty variant of Progress: Math.floor in place of Math.round.
ProgressFloor(index, totalNotes) == (100 * (index + 1)) \div totalNotes

\* Math.round(((index + 1) / totalNotes) * 100).  The quotient and the
\* product are doubles; for sequences of up to 129 events the product lies
\* on the other side of a half than the exact value only when
\* (index + 1) / totalNotes = 23 / 40: 57.49999999999999, rounded to 57.
Progress(index, totalNotes) ==
    IF 40 * (index + 1) = 23 * totalNotes
    THEN 57
    ELSE (200 * (index + 1) + totalNotes) \div (2 * totalNotes)

\* A faulty variant of Advance: the cursor skips an event.
AdvanceByTwo(index) == index + 2

\* currentNoteIndex++ after the wait.
Advance(index) == index + 1

\* A faulty variant of Sounds: the pitch is not looked at.
SoundsUnlessRest(note) == ~note.rest

\* The events that are sent to the synthesizer.
Sounds(note) == ~note.rest /\ note.pitch > 0

\* One pass from the loop condition to the next wait or to the end of
\* playNotes, on the values s.  fault: triggerAttackRelease throws.
\* outcome: "sleep" (suspended in the wait), "finished" (the loop ended
\* while playing), "exit" (the loop ended while not playing), "throw".
LoopResult(s, totalNotes, fault) ==
    LET none == [outcome |-> "exit", read |-> FALSE, triggered |-> FALSE,
                 progress |-> -1]
    IN
    IF LoopContinues(s.currentNoteIndex, totalNotes, s.isPlaying)
    THEN IF s.currentNoteIndex >= Len(s.currentNotes)
         THEN \* note is undefined: reading note.duration throws
              [none EXCEPT !.outcome = "throw"]
         ELSE LET note == s.currentNotes[s.currentNoteIndex + 1]
                  pct  == Progress(s.currentNoteIndex, totalNotes)
              IN  IF Sounds(note)
                  THEN IF synth = "null"
                       THEN [none EXCEPT !.outcome = "throw", !.read = TRUE]
                       ELSE IF fault
                       THEN [none EXCEPT !.outcome = "throw", !.read = TRUE,
                                         !.triggered = TRUE]
                       ELSE [outcome |-> "sleep", read |-> TRUE,
                             triggered |-> TRUE, progress |-> pct]
                  ELSE [outcome |-> "sleep", read |-> TRUE,
                        triggered |-> FALSE, progress |-> pct]
    ELSE IF s.isPlaying
         THEN [none EXCEPT !.outcome = "finished"]
         ELSE none

\* The entry of the run log for the event at the cursor of s.
LogEntry(s, totalNotes, r) ==
    [index |-> s.currentNoteIndex, totalNotes |-> totalNotes,
     pitch |-> s.currentNotes[s.currentNoteIndex + 1].pitch,
     triggered |-> r.triggered, progress |-> r.progress]

\* A faulty variant of FinishPlayback: the end of the run is not reported.
FinishSilently(s) ==
    [s EXCEPT !.isPlaying = FALSE,
              !.playBtn = Enabled,
              !.pauseBtn = Disabled,
              !.stopBtn = Disabled]

\* A faulty variant of FinishPlayback: the controls are left as they were.
FinishKeepsControls(s) ==
    [s EXCEPT !.isPlaying = FALSE,
              !.playbackStatus = Status("Finished", -1)]

\* The end of playNotes when the loop ended while playing.
FinishPlayback(s) ==
    [s EXCEPT !.isPlaying = FALSE,
              !.playbackStatus = Status("Finished", -1),
              !.playBtn = Enabled,
              !.pauseBtn = Disabled,
              !.stopBtn = Disabled]

\* A faulty variant of CatchPlaybackError: the state stays Playing.
CatchKeepsPlaying(s) ==
    [s EXCEPT !.playBtn = Enabled,
              !.pauseBtn = Disabled,
              !.stopBtn = Disabled]

\* The catch block of playAudio (showError is recorded by the handler).
CatchPlaybackError(s) ==
    [s EXCEPT !.isPlaying = FALSE,
              !.playBtn = Enabled,
              !.pauseBtn = Disabled,
              !.stopBtn = Disabled]

\* An activation (the others in flight are rest) runs playNotes from the
\* loop condition, on the values s, until it suspends, returns, or throws
\* into the catch block of playAudio.
RunLoop(op, rest, s, totalNotes, fault, transport) ==
    \E r \in {LoopResult(s, totalNotes, fault)} :
    \E t \in {CASE r.outcome = "sleep" ->
                     [s EXCEPT !.playbackStatus = Status("Playing", r.progress)]
                 [] r.outcome = "finished" -> FinishPlayback(s)
                 [] r.outcome = "throw" -> CatchPlaybackError(s)
                 [] OTHER -> s} :
        /\ isPlaying' = t.isPlaying
        /\ currentNotes' = t.currentNotes
        /\ currentNoteIndex' = t.currentNoteIndex
        /\ playbackStatus' = t.playbackStatus
        /\ playBtn' = t.playBtn
        /\ pauseBtn' = t.pauseBtn
        /\ stopBtn' = t.stopBtn
        /\ calls' = IF r.outcome = "sleep"
                    THEN With(rest, Sleeping(totalNotes))
                    ELSE rest
        /\ runLog' = IF r.read
                     THEN Append(s.runLog, LogEntry(s, totalNotes, r))
                     ELSE s.runLog
        /\ ev' = Event(op, r.outcome, 0, r.triggered,
                       IF r.read THEN s.currentNoteIndex ELSE -1,
                       IF r.outcome = "throw" THEN "Playback failed" ELSE "",
                       transport)

\* The timer of the wait of a live loop fires.
Wake ==
    \E a \in BagToSet(calls) :
    /\ a.pc = "sleep"
    /\ \E fault \in BOOLEAN,
          s \in {[Current EXCEPT !.currentNoteIndex = Advance(currentNoteIndex)]} :
         RunLoop("wake", Without(calls, a), s, a.totalNotes, fault, "same")
    /\ UNCHANGED << synth, toneContext, musicCode >>
    /\ UNCHANGED page

(***************************************************************************)
(* playAudio.                                                              *)
(***************************************************************************)
\* A faulty variant of NoInput: the placeholder is not recognised.
NoInputEmptyOnly(notation) == notation = << >>

\* !notation || notation === <the placeholder>
NoInput(notation) == notation = << >> \/ notation = Placeholder

\* A faulty variant of StartRun: the cursor is not reset (playback resumes).
StartRunKeepsCursor(s, notation) ==
    [s EXCEPT !.isPlaying = TRUE,
              !.playbackStatus = Status("Playing", -1),
              !.playBtn = Disabled,
              !.pauseBtn = Enabled,
              !.stopBtn = Enabled,
              !.currentNotes = parseABCNotation(notation),
              !.runLog = << >>]

\* The values after playAudio has announced playback, parsed and reset the cursor.
StartRun(s, notation) ==
    [s EXCEPT !.isPlaying = TRUE,
              !.playbackStatus = Status("Playing", -1),
              !.playBtn = Disabled,
              !.pauseBtn = Enabled,
              !.stopBtn = Enabled,
              !.currentNotes = parseABCNotation(notation),
              !.currentNoteIndex = 0,
              !.runLog = << >>]

\* The catch block of playAudio, for an exception thrown before the loop.
PlayFailed(op, rest) ==
    \E t \in {CatchPlaybackError(Current)} :
        /\ isPlaying' = t.isPlaying
        /\ playBtn' = t.playBtn
        /\ pauseBtn' = t.pauseBtn
        /\ stopBtn' = t.stopBtn
        /\ calls' = rest
        /\ ev' = Event(op, "throw", 0, FALSE, -1, "Playback failed", "play")
        /\ UNCHANGED << currentNotes, currentNoteIndex, playbackStatus,
                        runLog >>

\* playAudio from "isPlaying = true" on, for the text read before the await.
PlayBody(op, rest, notation, fault) ==
    \E s \in {StartRun(Current, notation)} :
        IF Len(s.currentNotes) = 0
        THEN /\ isPlaying' = FALSE
             /\ playBtn' = Enabled
             /\ pauseBtn' = Disabled
             /\ stopBtn' = Disabled
             /\ currentNotes' = s.currentNotes
             /\ playbackStatus' = s.playbackStatus
             /\ calls' = rest
             /\ ev' = Event(op, "noNotes", 0, FALSE, -1,
                            "No valid notes found in notation", "play")
             /\ UNCHANGED << currentNoteIndex, runLog >>
        ELSE RunLoop(op, rest, s, Len(s.currentNotes), fault, "play")

\* A call of playAudio, up to its first suspension or its return.
PlayAudio ==
    /\ BagCardinality(calls) < MaxCalls
    /\ IF NoInput(musicCode)
       THEN /\ ev' = Event("play", "noInput", 0, FALSE, -1,
                           "No music to play", "play")
            /\ UNCHANGED << isPlaying, currentNotes, currentNoteIndex,
                            playbackStatus, playBtn, pauseBtn, stopBtn,
                            calls, runLog >>
       ELSE IF toneContext = "suspended"
       THEN /\ calls' = With(calls, Awaiting(musicCode))
            /\ ev' = Event("play", "await", 0, FALSE, -1, "", "play")
            /\ UNCHANGED << isPlaying, currentNotes, currentNoteIndex,
                            playbackStatus, playBtn, pauseBtn, stopBtn,
                            runLog >>
       ELSE \E fault \in BOOLEAN : PlayBody("play", calls, musicCode, fault)
    /\ UNCHANGED << synth, toneContext, musicCode >>
    /\ UNCHANGED page

\* The promise of Tone.start() awaited by an activation is fulfilled.
ToneStarted ==
    \E a \in BagToSet(calls) :
    /\ a.pc = "await"
    /\ toneContext' = "running"
    /\ \E fault \in BOOLEAN :
         PlayBody("toneStarted", Without(calls, a), a.notation, fault)
    /\ UNCHANGED << synth, musicCode >>
    /\ UNCHANGED page

\* The promise of Tone.start() awaited by an activation is rejected.
ToneStartFailed ==
    \E a \in BagToSet(calls) :
    /\ a.pc = "await"
    /\ PlayFailed("toneStartFailed", Without(calls, a))
    /\ UNCHANGED << synth, toneContext, musicCode >>
    /\ UNCHANGED page

(***************************************************************************)
(* pauseAudio and stopAudio.                                               *)
(***************************************************************************)
\* The values after a pauseAudio that ran to its end.
PauseResult(s) ==
    [s EXCEPT !.isPlaying = FALSE,
              !.playbackStatus = Status("Paused", -1),
              !.playBtn = Enabled,
              !.pauseBtn = Disabled,
              !.stopBtn = Enabled]

\* A faulty variant of StopResult: the cursor is not reset.
StopResultKeepsCursor(s) ==
    [s EXCEPT !.isPlaying = FALSE,
              !.playbackStatus = Status("Stopped", -1),
              !.playBtn = Enabled,
              !.pauseBtn = Disabled,
              !.stopBtn = Disabled]

\* The values after a stopAudio that ran to its end.
StopResult(s) ==
    [s EXCEPT !.isPlaying = FALSE,
              !.currentNoteIndex = 0,
              !.playbackStatus = Status("Stopped", -1),
              !.playBtn = Enabled,
              !.pauseBtn = Disabled,
              !.stopBtn = Disabled]

\* A handler that sets isPlaying = false, calls synth.triggerRelease() and
\* then makes the rest of its assignments, giving the values s.  With no
\* synth the call throws and the handler ends there.
ReleaseThen(op, s) ==
    /\ isPlaying' = s.isPlaying
    /\ IF synth = "null"
       THEN /\ ev' = Event(op, "throw", 0, FALSE, -1, "", op)
            /\ UNCHANGED << currentNoteIndex, playbackStatus, playBtn,
                            pauseBtn, stopBtn >>
       ELSE /\ ev' = Event(op, "returned", 1, FALSE, -1, "", op)
            /\ currentNoteIndex' = s.currentNoteIndex
            /\ playbackStatus' = s.playbackStatus
            /\ playBtn' = s.playBtn
            /\ pauseBtn' = s.pauseBtn
            /\ stopBtn' = s.stopBtn
    /\ UNCHANGED << synth, toneContext, musicCode, currentNotes, calls,
                    runLog >>
    /\ UNCHANGED page

PauseAudio ==
    /\ TRUE
    /\ ReleaseThen("pause", PauseResult(Current))

StopAudio ==
    /\ TRUE
    /\ ReleaseThen("stop", StopResult(Current))

(***************************************************************************)
(* The rest of the page: a generation result or a history item is shown.   *)
(***************************************************************************)
DisplayGeneration(notation) ==
    /\ musicCode' = notation
    /\ ev' = Event("display", "returned", 0, FALSE, -1, "", "same")
    /\ UNCHANGED << synth, toneContext, isPlaying, currentNotes,
                    currentNoteIndex, playbackStatus, playBtn, pauseBtn,
                    stopBtn, calls, runLog >>
    /\ UNCHANGED page

(***************************************************************************)
(* Specifications.                                                         *)
(***************************************************************************)
\* The handlers called in any order, as functions of the page.
Next ==
    \/ PlayAudio
    \/ ToneStarted
    \/ ToneStartFailed
    \/ Wake
    \/ PauseAudio
    \/ StopAudio
    \/ \E notation \in Notations : DisplayGeneration(notation)

Spec == Init /\ [][Next]_vars

\* One call of playAudio on a tune, then only the timers: playback that
\* nothing interrupts.
InitSolo == InitWith(SoloNotations)

NextSolo ==
    \/ ev.op = "init" /\ PlayAudio
    \/ ToneStarted
    \/ ToneStartFailed
    \/ Wake

SpecSolo == InitSolo /\ [][NextSolo]_vars

\* Uninterrupted playback in which the timer of a wait always fires in the
\* end (setTimeout with a finite delay).
SpecSoloFair == SpecSolo /\ WF_vars(Wake)

\* The tokenizer alone: currentNotes = parseABCNotation(notation) for a
\* text of the buffer, as playAudio calls it.
InitParse ==
    /\ InitWith(ParseInputs)
    /\ synth = "PolySynth"
    /\ toneContext = "running"

ParseNotation ==
    /\ ev.op = "init"
    /\ currentNotes' = parseABCNotation(musicCode)
    /\ ev' = Event("parse", "returned", 0, FALSE, -1, "", "same")
    /\ UNCHANGED << synth, toneContext, musicCode, isPlaying,
                    currentNoteIndex, playbackStatus, playBtn, pauseBtn,
                    stopBtn, calls, runLog >>
    /\ UNCHANGED page

NextParse == ParseNotation

SpecParse == InitParse /\ [][NextParse]_vars

(***************************************************************************)
(* downloadABC (the last of the definitions in the file, the one in        *)
(* effect).                                                                *)
(***************************************************************************)

\* The placeholder as downloadABC spells it: the literal of playAudio
\* without the sign and the space in front.
PlaceholderPlain == SubSeq(Placeholder, 3, Len(Placeholder))

\* !notation || notation === <the placeholder>
DownloadNoInput(notation) == notation = << >> \/ notation = PlaceholderPlain

\* A click on the download control.
DownloadABC ==
    /\ IF DownloadNoInput(musicCode)
       THEN /\ ev' = Event("download", "noInput", 0, FALSE, -1,
                           "No music to download", "same")
            /\ UNCHANGED downloaded
       ELSE /\ downloaded' = [made |-> TRUE, content |-> musicCode]
            /\ ev' = Event("download", "downloaded", 0, FALSE, -1, "", "same")
    /\ UNCHANGED << synth, toneContext, musicCode, isPlaying, currentNotes,
                    currentNoteIndex, playbackStatus, playBtn, pauseBtn,
                    stopBtn, calls, runLog, history, generated >>

\* The texts the buffer holds in the specification of the export: the
\* generated tunes, and the placeholder of the page when it is shown again.
ExportNotations == Notations \cup {Placeholder}

\* The page with its download control: texts are shown, played (one call
\* of playAudio at a time) and downloaded.
NextExport ==
    \/ calls = EmptyBag /\ PlayAudio
    \/ ToneStarted
    \/ ToneStartFailed
    \/ Wake
    \/ DownloadABC
    \/ \E notation \in ExportNotations : DisplayGeneration(notation)

SpecExport == Init /\ [][NextExport]_vars

(***************************************************************************)
(* The history of generations in localStorage.                             *)
(***************************************************************************)

\* STORAGE_LIMITS
MAX_ITEMS == 10
MAX_STORAGE_SIZE == 5 * 1024 * 1024

\* An item of the history: its identifier and its favorite flag (the
\* notation and the parameters of the generation play no part here).
Item(id, isFavorite) == [id |-> id, isFavorite |-> isFavorite]

\* The length of the JSON text of one item with the comma after it: the
\* notations are taken to be of one length, so long that five items do not
\* fit under MAX_STORAGE_SIZE and four do.
ItemLength == MAX_STORAGE_SIZE \div 5

\* getStorageSize: the length of the key 'history' and of the text stored
\* under it.
getStorageSize(stored) == 7 + 2 + Len(stored) * ItemLength

isStorageQuotaExceeded(stored) == getStorageSize(stored) > MAX_STORAGE_SIZE

\* history.filter(item => item.isFavorite) and its complement.
Favorites(h) == SelectSeq(h, LAMBDA item : item.isFavorite)
NonFavorites(h) == SelectSeq(h, LAMBDA item : ~item.isFavorite)

\* A faulty variant of AddResult: the history is not cut.
AddWithoutPop(h, item) == << item >> \o h

\* addToHistory: unshift, then pop when more than 10 items.
AddResult(h, item) ==
    LET added == << item >> \o h
    IN  IF Len(added) > 10 THEN SubSeq(added, 1, Len(added) - 1) ELSE added

\* The handler of a generation result stores it in the history.
AddToHistory ==
    /\ generated < MaxGenerations
    /\ generated' = generated + 1
    /\ history' = AddResult(history, Item(generated + 1, FALSE))
    /\ ev' = Event("add", "returned", 0, FALSE, -1, "", "same")
    /\ UNCHANGED << synth, toneContext, musicCode, isPlaying, currentNotes,
                    currentNoteIndex, playbackStatus, playBtn, pauseBtn,
                    stopBtn, calls, runLog, downloaded >>

\* A faulty variant of ToggleResult: the item is marked, never unmarked.
ToggleMarks(h, index) ==
    IF index < Len(h)
    THEN [h EXCEPT ![index + 1].isFavorite = TRUE]
    ELSE h

\* What toggleFavorite(index) saves; an index with no item changes nothing.
ToggleResult(h, index) ==
    IF index < Len(h)
    THEN [h EXCEPT ![index + 1].isFavorite = ~@]
    ELSE h

\* toggleFavorite(index), for the button of an item or an index with no item.
ToggleFavorite(index) ==
    /\ IF index >= Len(history) THEN TRUE
       ELSE IF history[index + 1].isFavorite THEN TRUE
       ELSE Len(Favorites(history)) < MaxFavorites
    /\ history' = ToggleResult(history, index)
    /\ ev' = Event("toggle", "returned", 0, FALSE, index, "", "same")
    /\ UNCHANGED << synth, toneContext, musicCode, isPlaying, currentNotes,
                    currentNoteIndex, playbackStatus, playBtn, pauseBtn,
                    stopBtn, calls, runLog, generated, downloaded >>

\* A faulty variant of ClearResult: nothing is kept.
ClearEverything(h) == << >>

\* What clearNonFavorites saves.
ClearResult(h) == Favorites(h)

\* clearNonFavorites, with the answer to its confirm dialog.
ClearNonFavorites(confirmed) ==
    /\ IF confirmed
       THEN /\ history' = ClearResult(history)
            /\ ev' = Event("clear", "confirmed", 0, FALSE, -1, "", "same")
       ELSE /\ history' = history
            /\ ev' = Event("clear", "declined", 0, FALSE, -1, "", "same")
    /\ UNCHANGED << synth, toneContext, musicCode, isPlaying, currentNotes,
                    currentNoteIndex, playbackStatus, playBtn, pauseBtn,
                    stopBtn, calls, runLog, generated, downloaded >>

\* The loop of cleanupStorage: it tests the size of what is stored, which
\* nothing changes before the loop has ended.
RECURSIVE CleanupLoop(_, _)
CleanupLoop(nonFavorites, stored) ==
    IF Len(nonFavorites) > 0 /\ isStorageQuotaExceeded(stored)
    THEN CleanupLoop(Tail(nonFavorites), stored)
    ELSE nonFavorites

\* What cleanupStorage leaves in the store.
CleanupResult(h) ==
    IF ~isStorageQuotaExceeded(h) THEN h
    ELSE CleanupLoop(NonFavorites(h), h) \o Favorites(h)

CleanupStorage ==
    /\ history' = CleanupResult(history)
    /\ ev' = Event("cleanup",
                   IF isStorageQuotaExceeded(history) THEN "cleaned"
                   ELSE "returned",
                   0, FALSE, -1, "", "same")
    /\ UNCHANGED << synth, toneContext, musicCode, isPlaying, currentNotes,
                    currentNoteIndex, playbackStatus, playBtn, pauseBtn,
                    stopBtn, calls, runLog, generated, downloaded >>

\* The items of a sequence whose id no earlier item has, in their order.
RECURSIVE Unique(_, _)
Unique(merged, seen) ==
    IF Len(merged) = 0 THEN << >>
    ELSE IF Head(merged).id \in seen THEN Unique(Tail(merged), seen)
    ELSE << Head(merged) >> \o Unique(Tail(merged), seen \cup {Head(merged).id})

\* What importData saves for data with a history array.
ImportResult(h, data) ==
    LET unique == Unique(data.history \o h, {})
    IN  SubSeq(unique, 1, Min(Len(unique), MAX_ITEMS))

\* The files given to importData: one with no history array, and an export
\* of two items: the first generation of this page, marked, and an item
\* of another page (identifiers below 0, which generateUUID here never
\* issues).
ImportFiles ==
    { [valid |-> FALSE, history |-> << >>],
      [valid |-> TRUE, history |-> << Item(1, TRUE), Item(-1, FALSE) >>] }

\* importData(data); a file holds an identifier of this page only after it
\* was issued (generateUUID does not repeat the identifier of an item that
\* exists).
ImportData(data) ==
    /\ \A k \in DOMAIN data.history :
         data.history[k].id > 0 => data.history[k].id <= generated
    /\ IF data.valid
       THEN /\ history' = ImportResult(history, data)
            /\ ev' = Event("import", "returned", 0, FALSE, -1, "", "same")
       ELSE /\ history' = history
            /\ ev' = Event("import", "invalid", 0, FALSE, -1, "", "same")
    /\ UNCHANGED << synth, toneContext, musicCode, isPlaying, currentNotes,
                    currentNoteIndex, playbackStatus, playBtn, pauseBtn,
                    stopBtn, calls, runLog, generated, downloaded >>

\* The operations on the stored history, in any order, from the empty one.
InitHistory ==
    /\ Init
    /\ synth = "PolySynth"
    /\ toneContext = "running"

NextHistory ==
    \/ AddToHistory
    \/ \E index \in 0..Len(history) : ToggleFavorite(index)
    \/ \E confirmed \in BOOLEAN : ClearNonFavorites(confirmed)
    \/ CleanupStorage
    \/ \E data \in ImportFiles : ImportData(data)

SpecHistory == InitHistory /\ [][NextHistory]_vars

(***************************************************************************)
(* The transport as the controls of the page allow it: a handler runs      *)
(* only when its control is enabled.                                       *)
(***************************************************************************)

NextControls ==
    \/ ~playBtn.disabled /\ PlayAudio
    \/ ToneStarted
    \/ ToneStartFailed
    \/ Wake
    \/ ~pauseBtn.disabled /\ PauseAudio
    \/ ~stopBtn.disabled /\ StopAudio
    \/ \E notation \in Notations : DisplayGeneration(notation)

SpecControls == Init /\ [][NextControls]_vars

(***************************************************************************)
(* Properties of the playback scheduler.                                   *)
(***************************************************************************)
\* The handlers that run the body of playAudio.
PlayOps == {"play", "toneStarted"}

\* The variables a handler may change, apart from the record of its execution.
playback ==
    << isPlaying, currentNotes, currentNoteIndex, playbackStatus, playBtn,
       pauseBtn, stopBtn, calls, runLog >>

\* C1: a call of play() that finds the state already Playing does not leave
\* a second scheduling loop running beside the first.
C1_ReentrantPlayGuard ==
    [][(isPlaying /\ ev'.op \in PlayOps) => LiveLoops' <= 1]_vars

\* C2: in every reachable state the cursor lies between 0 and the length of
\* the active sequence.
C2_CursorBounds ==
    0 <= currentNoteIndex /\ currentNoteIndex <= Len(currentNotes)

\* C3: pause() and stop() leave every suspended loop suspended and trigger
\* nothing; and while the last transport operation that ran is a pause or a
\* stop, a loop that wakes up reads no event, triggers nothing and exits.
C3_DeferredCancellation ==
    [][/\ ev'.op \in {"pause", "stop"} =>
            calls' = calls /\ ~ev'.triggered /\ ev'.index = -1
       /\ (ev.transport \in {"pause", "stop"} /\ ev'.op = "wake") =>
            /\ ~ev'.triggered
            /\ ev'.index = -1
            /\ ev'.outcome = "exit"
            /\ LiveLoops' = LiveLoops - 1
            /\ runLog' = runLog]_vars

\* A loop woke up after a pause with events left to play, and exited.
C3_Witness ==
    /\ ev.op = "wake"
    /\ ev.transport = "pause"
    /\ ev.outcome = "exit"
    /\ synth = "PolySynth"
    /\ currentNoteIndex < Len(currentNotes)

\* C4: the events handled since the last start of playback are those at
\* the indices 0, 1, 2, ... in this order, none skipped and none repeated.
C4_ParseOrder ==
    \A k \in 1..Len(runLog) : runLog[k].index = k - 1

\* A run that has handled three events, the last one at a wake-up.
C4_Witness ==
    /\ ev.op = "wake"
    /\ ev.index = 2
    /\ Len(runLog) = 3

\* round(k / n * 100): the percentage nearest to 100 * k / n, halves rounded
\* up, but 57 for k / n = 23 / 40, where the double product is below 57.5.
RoundPercent(k, n) ==
    IF 40 * k = 23 * n
    THEN 57
    ELSE CHOOSE p \in 0..100 :
             2 * p * n - n <= 200 * k /\ 200 * k < 2 * p * n + n

\* Playback went through the whole sequence and ended by itself.
RanToCompletion == playbackStatus.text = "Finished"

\* The progress updates of the run are one per event, k-th of them
\* round(k / N * 100), and the last one is 100.
AllProgressReported ==
    /\ Len(runLog) = Len(currentNotes)
    /\ \A k \in 1..Len(runLog) :
         runLog[k].progress = RoundPercent(k, Len(currentNotes))
    /\ runLog[Len(runLog)].progress = 100

C6_PlayRestarts ==
    (ev.op \in PlayOps /\ ev.outcome \in {"sleep", "throw", "finished"}) =>
        /\ currentNoteIndex = 0
        /\ ev.index = 0
        /\ Len(runLog) = 1
        /\ runLog[1].index = 0
        /\ currentNotes # << >>
        /\ playbackStatus.text = "Playing"
        /\ ev.outcome = "sleep" =>
             /\ isPlaying
             /\ BagIn(Sleeping(Len(currentNotes)), calls)

\* play() right after a pause() that found the cursor past the first event.
C6_Witness ==
    /\ ev.op \in PlayOps
    /\ ev.outcome = "sleep"
    /\ ev.prevTransport = "pause"
    /\ ev.fromIndex > 0

\* C7: play() on an empty buffer or on the placeholder reports "No music
\* to play" and changes nothing else: state, cursor, sequence, controls,
\* status and the loops in flight stay as they were, and nothing is triggered.
C7_NoInputChangesNothing ==
    [][(ev'.op = "play" /\ (musicCode = << >> \/ musicCode = Placeholder)) =>
          /\ ev'.outcome = "noInput"
          /\ ev'.error = "No music to play"
          /\ ~ev'.triggered
          /\ ev'.released = 0
          /\ UNCHANGED playback]_vars

\* play() was refused for lack of input while a loop was running.
C7_Witness ==
    /\ ev.op = "play"
    /\ ev.outcome = "noInput"
    /\ isPlaying
    /\ LiveLoops = 1

\* C8: when stop() has returned the state is Stopped, not Playing, the
\* cursor is 0 and one release signal was sent to the synthesizer.
C8_StopResets ==
    (ev.op = "stop" /\ ev.outcome = "returned") =>
        /\ ~isPlaying
        /\ playbackStatus.text = "Stopped"
        /\ currentNoteIndex = 0
        /\ ev.released = 1

\* stop() returned after it found a running loop with the cursor past 0.
C8_Witness ==
    /\ ev.op = "stop"
    /\ ev.outcome = "returned"
    /\ ev.fromIndex > 0
    /\ LiveLoops >= 1

\* C9: every stop() returns without an error and leaves the state Stopped,
\* not Playing, with the cursor at 0; a stop() right after a stop() changes
\* nothing and only repeats the release call.
C9_StopIdempotent ==
    [][ev'.op = "stop" =>
          /\ ev'.outcome = "returned"
          /\ ~isPlaying'
          /\ playbackStatus'.text = "Stopped"
          /\ currentNoteIndex' = 0
          /\ ev.op = "stop" => (ev'.released = 1 /\ UNCHANGED playback)]_vars

\* C10: every pause() leaves the state Paused, not Playing, sends one
\* release signal, and changes neither the cursor nor the sequence.
C10_PauseFrame ==
    [][ev'.op = "pause" =>
          /\ ~isPlaying'
          /\ playbackStatus'.text = "Paused"
          /\ ev'.released = 1
          /\ currentNoteIndex' = currentNoteIndex
          /\ currentNotes' = currentNotes]_vars

\* C11: when a loop's increment brings the cursor to the length of the
\* active sequence while the state is Playing, the state becomes Finished:
\* isPlaying false, the status Finished, play enabled, pause and stop disabled.
C11_NaturalCompletion ==
    [][(/\ ev'.op = "wake"
        /\ isPlaying
        /\ Advance(currentNoteIndex) = Len(currentNotes)) =>
          /\ ev'.outcome = "finished"
          /\ ~isPlaying'
          /\ playbackStatus' = Status("Finished", -1)
          /\ playBtn' = Enabled
          /\ pauseBtn' = Disabled
          /\ stopBtn' = Disabled]_vars

\* C12: an event a loop has read that is no rest and has a pitch above 0
\* made the loop call triggerAttackRelease once (the call reached the
\* synthesizer, or it raised); a rest or an event of pitch 0 made it call
\* nothing, and the loop showed the progress and suspended in the wait.
C12_TriggerPerEvent ==
    ev.index >= 0 =>
        LET note == currentNotes[ev.index + 1]
            last == runLog[Len(runLog)]
        IN  /\ last.index = ev.index
            /\ (~note.rest /\ note.pitch > 0) =>
                  /\ ev.triggered \/ ev.outcome = "throw"
                  /\ synth = "PolySynth" => ev.triggered
                  /\ ev.outcome \in {"sleep", "throw"}
            /\ (note.rest \/ note.pitch = 0) =>
                  /\ ~ev.triggered
                  /\ ev.outcome = "sleep"
            /\ ev.outcome = "sleep" =>
                  /\ playbackStatus = Status("Playing", last.progress)
                  /\ last.progress >= 0
                  /\ BagIn(Sleeping(last.totalNotes), calls)

\* A loop has handled an event of pitch 0 that is no rest.
C12_Witness ==
    /\ ev.index >= 0
    /\ ev.outcome = "sleep"
    /\ ~ev.triggered
    /\ ~currentNotes[ev.index + 1].rest
    /\ currentNotes[ev.index + 1].pitch = 0
    /\ synth = "PolySynth"

Parsed == ev.op = "parse"

\* C14: for every text the tokenizer returns a sequence of at least one
\* event, each with a pitch, a duration and a rest flag.
C14_ParseTotal ==
    Parsed =>
        /\ Len(currentNotes) >= 1
        /\ \A k \in 1..Len(currentNotes) :
             /\ DOMAIN currentNotes[k] = {"pitch", "duration", "rest"}
             /\ currentNotes[k].pitch \in Int
             /\ currentNotes[k].rest \in BOOLEAN

\* The tokenizer was given a text of other characters only.
C14_Witness == Parsed /\ musicCode = Garbage /\ Len(currentNotes) = 8

\* The default sequence, written out.
DefaultSequence ==
    [k \in 1..8 |->
       [pitch |-> << 64, 67, 69, 71, 76, 79, 81, 83 >>[k],
        duration |-> [num |-> 1, den |-> 1],
        rest |-> FALSE]]

\* C15: for the empty text, for the headers-only text, and whenever the
\* scan of the lines emits no event, the tokenizer returns the default
\* sequence: pitches 64, 67, 69, 71, 76, 79, 81, 83, durations 1, no rest.
C15_Fallback ==
    Parsed =>
        ((\/ musicCode = << >>
          \/ musicCode = HeadersOnly
          \/ ScanLines(SplitLines(musicCode), 1) = << >>) =>
            currentNotes = DefaultSequence)

\* The tokenizer was given headers only.
C15_Witness == Parsed /\ musicCode = HeadersOnly

\* C16: every event the tokenizer returns has a duration above 0.
C16_DurationPositive ==
    Parsed =>
        \A k \in 1..Len(currentNotes) :
            /\ currentNotes[k].duration.den > 0
            /\ currentNotes[k].duration.num > 0

\* The end of the run of digits of text that starts at position i.
RECURSIVE DigitRunEnd(_, _)
DigitRunEnd(text, i) ==
    IF i <= Len(text) /\ text[i] \in Digits
    THEN DigitRunEnd(text, i + 1)
    ELSE i

\* The number written by the digits text[i..j-1]; 1 if there is none.
RECURSIVE DigitsValue(_, _, _)
DigitsValue(text, i, j) ==
    IF i >= j THEN 1
    ELSE IF i = j - 1 THEN ParseInt(text[i])
    ELSE 10 * DigitsValue(text, i, j - 1) + ParseInt(text[j - 1])

\* C17: a text made of a note or rest letter, digits n1..nk, and possibly
\* '/' and digits m1..mj gives one event whose duration is the number
\* n1..nk (1 if absent) divided by the number m1..mj.
C17_DigitSequences ==
    LET t == musicCode
        a == DigitRunEnd(t, 2)
        slash == a <= Len(t) /\ t[a] = "/"
        b == IF slash THEN DigitRunEnd(t, a + 1) ELSE a
        n == DigitsValue(t, 2, a)
        m == IF slash THEN DigitsValue(t, a + 1, b) ELSE 1
    IN  (/\ Parsed
         /\ Len(t) >= 2
         /\ t[1] \in NoteLetters \cup {"z"}
         /\ b = Len(t) + 1
         /\ slash => b > a + 1
         /\ m > 0) =>
            /\ Len(currentNotes) = 1
            /\ currentNotes[1].rest = (t[1] = "z")
            /\ currentNotes[1].duration.den > 0
            /\ currentNotes[1].duration.num * m = n * currentNotes[1].duration.den

\* C18: a note or rest letter that no digit and no slash follows gives
\* duration 1; a '/' that no digit follows halves the number before it
\* (1 if there is none).
C18_DurationDefaults ==
    LET t == musicCode
        d == currentNotes[1].duration
        after(i) == i > Len(t) \/ t[i] \notin Digits
    IN  (/\ Parsed
         /\ Len(t) >= 1
         /\ t[1] \in NoteLetters \cup {"z"}
         /\ ~(Len(t) >= 2 /\ t[1] \in UpperCase /\ t[2] = ":")) =>
            /\ (\/ Len(t) = 1
                \/ t[2] \notin Digits \cup {"/"} \cup Accidentals \cup OctaveMarks)
                 => d = [num |-> 1, den |-> 1]
            /\ (Len(t) >= 2 /\ t[2] = "/" /\ after(3))
                 => d = [num |-> 1, den |-> 2]
            /\ (Len(t) >= 3 /\ t[2] \in Digits /\ t[3] = "/" /\ after(4))
                 => d.den > 0 /\ 2 * d.num = ParseInt(t[2]) * d.den

\* "c3/" was parsed: duration 3/2.
C18_Witness ==
    /\ Parsed
    /\ musicCode = << "c", "3", "/" >>
    /\ currentNotes[1].duration = [num |-> 3, den |-> 2]

\* The table of the pitch mapper, written out; 64 for any other base.
PitchTable(base) ==
    CASE base = "D" -> 62 [] base = "E" -> 64 [] base = "F" -> 65
      [] base = "G" -> 67 [] base = "A" -> 69 [] base = "B" -> 71
      [] base = "c" -> 72 [] base = "d" -> 74 [] base = "e" -> 76
      [] base = "f" -> 77 [] base = "g" -> 79 [] base = "a" -> 81
      [] base = "b" -> 83 [] OTHER -> 64

\* clamp(table[base] + 12 * (number of ') - 12 * (number of ,), 0, 127)
ExpectedPitch(token) ==
    LET ups   == Cardinality({ k \in 2..Len(token) : token[k] = "'" })
        downs == Cardinality({ k \in 2..Len(token) : token[k] = "," })
        p     == PitchTable(token[1]) + 12 * ups - 12 * downs
    IN  IF p < 0 THEN 0 ELSE IF p > 127 THEN 127 ELSE p

\* C19: a token made of a note letter and octave marks is given the pitch
\* clamp(table[base] + 12 * ups - 12 * downs, 0, 127); c is 72, c' is 84,
\* c,, is 48, C is 64, and so is every base that is not in the table.
C19_PitchMapper ==
    LET t == musicCode
    IN  (/\ Parsed
         /\ Len(t) >= 1
         /\ t[1] \in NoteLetters
         /\ \A k \in 2..Len(t) : t[k] \in OctaveMarks) =>
            /\ Len(currentNotes) = 1
            /\ currentNotes[1].pitch = ExpectedPitch(t)
            /\ t = << "c" >> => currentNotes[1].pitch = 72
            /\ t = << "c", "'" >> => currentNotes[1].pitch = 84
            /\ t = << "c", ",", "," >> => currentNotes[1].pitch = 48
            /\ t = << "C" >> => currentNotes[1].pitch = 64
            /\ \A base \in {"C", "z", "x", "H", "1"} :
                 \A m \in {<< >>, << "'" >>, << ",", "," >>} :
                   noteToMIDI(<< base >> \o m) = ExpectedPitch(<< base >> \o m)

\* "b''''" was parsed: 83 + 48 is clamped to 127.
C19_Witness ==
    /\ Parsed
    /\ musicCode = << "b", "'", "'", "'", "'" >>
    /\ currentNotes[1].pitch = 127

\* C20: every event the tokenizer returns has a pitch from 0 to 127.
C20_PitchRange ==
    Parsed =>
        \A k \in 1..Len(currentNotes) : currentNotes[k].pitch \in 0..127

\* "D,,,,,," was parsed: 62 - 72 is clamped to 0.
C20_Witness ==
    /\ Parsed
    /\ musicCode = << "D", ",", ",", ",", ",", ",", "," >>
    /\ currentNotes[1].pitch = 0
    /\ ~currentNotes[1].rest

\* A line that begins with an upper-case letter and a colon.
HeaderLine(line) == Len(line) >= 2 /\ line[1] \in UpperCase /\ line[2] = ":"

\* The lines joined again by line breaks.
RECURSIVE JoinLines(_)
JoinLines(lines) ==
    IF Len(lines) = 0 THEN << >>
    ELSE IF Len(lines) = 1 THEN lines[1]
    ELSE lines[1] \o << "\n" >> \o JoinLines(Tail(lines))

\* The text without its header lines.
WithoutHeaders(text) ==
    JoinLines(SelectSeq(SplitLines(text), LAMBDA l : ~HeaderLine(l)))

\* C21: the header lines of a text count for nothing: the tokenizer returns
\* for the text what it returns for the text without them, and the default
\* sequence when every line is a header.
C21_HeaderSkipping ==
    Parsed =>
        /\ currentNotes = parseABCNotation(WithoutHeaders(musicCode))
        /\ (\A k \in DOMAIN SplitLines(musicCode) :
               HeaderLine(SplitLines(musicCode)[k])) =>
             currentNotes = DefaultSequence

\* Header lines with notes in them were skipped between lines of music.
C21_Witness ==
    /\ Parsed
    /\ musicCode = TuneUnderHeaders
    /\ Len(currentNotes) = 2
    /\ currentNotes[1].pitch = 69
    /\ currentNotes[2].rest

\* The number of 'z' of a line from position i on that are outside the
\* quoted annotations.
RECURSIVE RestsOutsideQuotes(_, _, _)
RestsOutsideQuotes(line, i, quoted) ==
    IF i > Len(line) THEN 0
    ELSE IF line[i] = "\"" THEN RestsOutsideQuotes(line, i + 1, ~quoted)
    ELSE (IF line[i] = "z" /\ ~quoted THEN 1 ELSE 0)
           + RestsOutsideQuotes(line, i + 1, quoted)

\* The number of rest tokens of the lines from line k on.
RECURSIVE RestTokens(_, _)
RestTokens(lines, k) ==
    IF k > Len(lines) THEN 0
    ELSE (IF HeaderLine(lines[k]) THEN 0
          ELSE RestsOutsideQuotes(lines[k], 1, FALSE))
           + RestTokens(lines, k + 1)

\* C22: the events with the rest flag are as many as the 'z' outside quoted
\* annotations on lines that are no headers, and each has pitch 0.
C22_RestIdentity ==
    Parsed =>
        LET rests == SelectSeq(currentNotes, LAMBDA e : e.rest)
        IN  /\ Len(rests) = RestTokens(SplitLines(musicCode), 1)
            /\ \A k \in 1..Len(rests) : rests[k].pitch = 0

\* "z"z was parsed: the quoted z gives nothing, the other one a rest.
C22_Witness ==
    /\ Parsed
    /\ musicCode = << "\"", "z", "\"", "z" >>
    /\ Len(currentNotes) = 1
    /\ currentNotes[1].rest
    /\ currentNotes[1].pitch = 0

\* The events of the lines from line k on, line after line.
RECURSIVE EventsInOrder(_, _)
EventsInOrder(lines, k) ==
    IF k > Len(lines) THEN << >>
    ELSE (IF HeaderLine(lines[k]) THEN << >> ELSE ScanLine(lines[k], 1, << >>))
           \o EventsInOrder(lines, k + 1)

\* The sequence expected for "X:1\nK:G\nAB cd|z2 e2|".
TuneExampleEvents ==
    << [pitch |-> 69, duration |-> [num |-> 1, den |-> 1], rest |-> FALSE],
       [pitch |-> 71, duration |-> [num |-> 1, den |-> 1], rest |-> FALSE],
       [pitch |-> 72, duration |-> [num |-> 1, den |-> 1], rest |-> FALSE],
       [pitch |-> 74, duration |-> [num |-> 1, den |-> 1], rest |-> FALSE],
       [pitch |-> 0, duration |-> [num |-> 2, den |-> 1], rest |-> TRUE],
       [pitch |-> 76, duration |-> [num |-> 2, den |-> 1], rest |-> FALSE] >>

\* C23: the events of a text are those of its first line, then those of its
\* second line, and so on; "X:1\nK:G\nAB cd|z2 e2|" gives (69,1), (71,1),
\* (72,1), (74,1), the rest (0,2), (76,2).
C23_SourceOrder ==
    Parsed =>
        LET events == EventsInOrder(SplitLines(musicCode), 1)
        IN  /\ events # << >> => currentNotes = events
            /\ musicCode = TuneExample => currentNotes = TuneExampleEvents

\* The example was parsed.
C23_Witness ==
    /\ Parsed
    /\ musicCode = TuneExample
    /\ Len(currentNotes) = 6

(***************************************************************************)
(* Properties of the export, of the history and of the controls.           *)
(***************************************************************************)

\* C24: download and play agree on what is no input: for a buffer that
\* play() rejects (empty, or the placeholder) a download reports an error
\* and downloads nothing; for any other buffer the file downloaded is the
\* buffer.
C24_DownloadAgreesWithPlay ==
    [][ev'.op = "download" =>
          IF NoInput(musicCode)
          THEN /\ ev'.outcome = "noInput"
               /\ ev'.error # ""
               /\ downloaded' = downloaded
          ELSE /\ ev'.outcome = "downloaded"
               /\ downloaded' = [made |-> TRUE, content |-> musicCode]]_vars

\* C25: the stored history holds at most 10 generations.
C25_HistoryBound == Len(history) <= 10

\* The generation added to a full history pushed the oldest out.
C25_Witness ==
    /\ ev.op = "add"
    /\ generated > 10
    /\ Len(history) = 10
    /\ history[1].id = generated

\* C26: a confirmed Clear History keeps exactly the favorites, unchanged and
\* in their order; a declined one changes nothing.
C26_SelectiveClearing ==
    [][ev'.op = "clear" =>
          IF ev'.outcome = "confirmed"
          THEN history' = SelectSeq(history, LAMBDA item : item.isFavorite)
          ELSE history' = history]_vars

\* A confirmed clearing left two favorites, after more generations than
\* that had been stored.
C26_Witness ==
    /\ ev.op = "clear"
    /\ ev.outcome = "confirmed"
    /\ generated > 2
    /\ Len(history) = 2
    /\ history[1].isFavorite
    /\ history[2].isFavorite

\* The items of a sequence.
Items(h) == { h[k] : k \in DOMAIN h }

\* The history without its oldest (last) non-favorite item.
WithoutOldestNonFavorite(h) ==
    LET k == CHOOSE i \in DOMAIN h :
               /\ ~h[i].isFavorite
               /\ \A j \in DOMAIN h : j > i => h[j].isFavorite
    IN  SubSeq(h, 1, k - 1) \o SubSeq(h, k + 1, Len(h))

\* The oldest non-favorites removed one by one until the history fits
\* under the quota or has no non-favorite left.
RECURSIVE UntilUnderQuota(_)
UntilUnderQuota(h) ==
    IF isStorageQuotaExceeded(h) /\ NonFavorites(h) # << >>
    THEN UntilUnderQuota(WithoutOldestNonFavorite(h))
    ELSE h

\* C27: cleanupStorage changes nothing when the quota is not exceeded; when
\* it is, the items it keeps are those left after the oldest non-favorites
\* are removed one by one until the store is under the quota: no favorite
\* and no more non-favorites than needed are removed.
C27_CleanupUntilUnderQuota ==
    [][ev'.op = "cleanup" =>
          IF isStorageQuotaExceeded(history)
          THEN Items(history') = Items(UntilUnderQuota(history))
          ELSE history' = history]_vars

\* C28: with the handlers run only when their controls are enabled, and a
\* synthesizer constructed, at most one scheduling loop is live at any time.
C28_SingleLoop == synth = "PolySynth" => LiveLoops <= 1

\* C29: after a stop() that ran to its end, and until play runs again, the
\* cursor is 0.
C29_CursorStaysZero ==
    (ev.transport = "stop" /\ synth = "PolySynth") => currentNoteIndex = 0

\* C30: a loop that has read the event at the cursor (it then waits, or the
\* read or the trigger threw) found the cursor below the length of
\* currentNotes.
C30_ReadWithinSequence ==
    (ev.op \in PlayOps \cup {"wake"} /\ ev.outcome \in {"sleep", "throw"}) =>
        currentNoteIndex < Len(currentNotes)

(***************************************************************************)
(* Further properties of the transport.                                    *)
(***************************************************************************)

\* C31: with a synthesizer constructed, between handler executions the play
\* control is disabled exactly when isPlaying, the pause control is enabled
\* exactly when isPlaying, and the stop control is enabled when isPlaying.
C31_ControlsMatchState ==
    synth = "PolySynth" =>
        /\ playBtn.disabled <=> isPlaying
        /\ ~pauseBtn.disabled <=> isPlaying
        /\ isPlaying => ~stopBtn.disabled

\* A loop ended by itself while another one was live: the state is not
\* Playing and the controls say so.
C31_Witness ==
    /\ synth = "PolySynth"
    /\ ev.op = "wake"
    /\ ev.outcome = "finished"
    /\ LiveLoops = 1
    /\ ~isPlaying
    /\ ~playBtn.disabled
    /\ pauseBtn.disabled

\* The run has ended by itself at the end of the sequence.
FinishedAtEnd ==
    /\ ~isPlaying
    /\ playbackStatus.text = "Finished"
    /\ currentNoteIndex = Len(currentNotes)

\* C32: when play() has started a loop, nothing interrupts it and no call
\* of the synthesizer fails, and the timers fire, the loop ends: the state
\* becomes Finished with the cursor at the length of the sequence.
C32_LoopTerminates ==
    ([] (ev.outcome # "throw")) => ((LiveLoops = 1) ~> FinishedAtEnd)

\* A run of more than one event has ended by itself.
C32_Witness ==
    /\ ev.op = "wake"
    /\ ev.outcome = "finished"
    /\ FinishedAtEnd
    /\ Len(currentNotes) > 1
    /\ LiveLoops = 0

\* The status line pause() and stop() write.
TransportStatus(op) == IF op = "pause" THEN "Paused" ELSE "Stopped"

\* C33: while the last transport operation is a pause() or a stop(), no
\* handler reports Finished and the status line is the one of that
\* operation; a Finished report ends a Playing state, which only play()
\* begins, so that no play() is followed by two of them.
C33_FinishedOnlyByCompletion ==
    [][/\ ev'.transport \in {"pause", "stop"} =>
            /\ ev'.outcome # "finished"
            /\ playbackStatus'.text = TransportStatus(ev'.transport)
       /\ ev'.outcome = "finished" => (isPlaying /\ ~isPlaying')
       /\ (~isPlaying /\ isPlaying') => ev'.op \in PlayOps]_vars

\* C34: with no synthesizer (its construction failed), no pause() or stop()
\* ends by an exception that leaves the play control disabled while nothing
\* is playing.
C34_NullSynthNotFatal ==
    synth = "null" =>
        ~(/\ ev.op \in {"pause", "stop"}
          /\ ev.outcome = "throw"
          /\ ~isPlaying
          /\ playBtn.disabled)

\* The signs ^ _ = of the notation.
Markers == {"^", "_", "="}

\* The end of the run of signs that begins at the second character.
MarkersEnd(text) ==
    CHOOSE k \in 2..(Len(text) + 1) :
        /\ \A j \in 2..(k - 1) : text[j] \in Markers
        /\ k = Len(text) + 1 \/ text[k] \notin Markers

\* A text that is one note: a letter, signs directly after it, and then
\* nothing but octave marks and the characters of a duration.
IsMarkedNote(text) ==
    /\ Len(text) >= 2
    /\ text[1] \in NoteLetters
    /\ text[2] \in Markers
    /\ \A k \in MarkersEnd(text)..Len(text) :
         text[k] \in {"'", ",", "/", "0", "1", "2", "3", "4", "5", "6", "7",
                      "8", "9"}

\* The note without its signs.
Unmarked(text) ==
    << text[1] >> \o SubSeq(text, MarkersEnd(text), Len(text))

\* C35: a note with signs ^ _ = directly after its letter is parsed to the
\* one event that the note without the signs is parsed to.
C35_AccidentalsIgnored ==
    (Parsed /\ IsMarkedNote(musicCode)) =>
        /\ Len(currentNotes) = 1
        /\ currentNotes = parseABCNotation(Unmarked(musicCode))

\* A flat B an octave down with a duration was parsed like the plain one.
C35_Witness ==
    /\ Parsed
    /\ musicCode = << "B", "_", "=", ",", "2" >>
    /\ Len(currentNotes) = 1
    /\ currentNotes[1].pitch = 59
    /\ currentNotes[1].duration = [num |-> 2, den |-> 1]

\* The text from position i on, with every quoted annotation (its quotes,
\* and what is between them or up to the end of the line when it is not
\* closed) overwritten by bar lines, which emit nothing.
RECURSIVE Barred(_, _, _)
Barred(text, i, quoted) ==
    IF i > Len(text) THEN << >>
    ELSE IF text[i] = "\n" THEN << "\n" >> \o Barred(text, i + 1, FALSE)
    ELSE IF text[i] = "\"" THEN << "|" >> \o Barred(text, i + 1, ~quoted)
    ELSE << IF quoted THEN "|" ELSE text[i] >> \o Barred(text, i + 1, quoted)

\* C36: what stands in a quoted annotation emits nothing: the text is parsed
\* to what it is parsed to with its annotations overwritten by bar lines, an
\* annotation that is not closed reaching to the end of its line and no
\* further.
C36_AnnotationsEmitNothing ==
    Parsed => currentNotes = parseABCNotation(Barred(musicCode, 1, FALSE))

\* An annotation that is not closed held a note; the rest on the next line
\* was parsed.
C36_Witness ==
    /\ Parsed
    /\ musicCode = << "\"", "c", "\n", "z" >>
    /\ Len(currentNotes) = 1
    /\ currentNotes[1].rest

\* The characters that stand for an event.
EventLetters ==
    {"A", "B", "C", "D", "E", "F", "G", "a", "b", "c", "d", "e", "f", "g",
     "z"}

\* The number of event letters of a line from position i on that are
\* outside the quoted annotations.
RECURSIVE LettersOutsideQuotes(_, _, _)
LettersOutsideQuotes(line, i, quoted) ==
    IF i > Len(line) THEN 0
    ELSE IF line[i] = "\"" THEN LettersOutsideQuotes(line, i + 1, ~quoted)
    ELSE (IF line[i] \in EventLetters /\ ~quoted THEN 1 ELSE 0)
           + LettersOutsideQuotes(line, i + 1, quoted)

\* The number of event letters of the lines from line k on (a blank line
\* has none).
RECURSIVE EventLetterCount(_, _)
EventLetterCount(lines, k) ==
    IF k > Len(lines) THEN 0
    ELSE (IF HeaderLine(lines[k]) THEN 0
          ELSE LettersOutsideQuotes(lines[k], 1, FALSE))
           + EventLetterCount(lines, k + 1)

\* C37: the events of a text are as many as its letters A-G, a-g and z
\* outside quoted annotations on lines that are no headers; a text with no
\* such letter emits nothing (and gets the default sequence).
C37_EventCount ==
    Parsed =>
        LET n == EventLetterCount(SplitLines(musicCode), 1)
        IN  /\ n > 0 => Len(currentNotes) = n
            /\ n = 0 => currentNotes = DefaultSequence

\* "A/2z": four characters, two events.
C37_Witness ==
    /\ Parsed
    /\ musicCode = << "A", "/", "2", "z" >>
    /\ Len(currentNotes) = 2
    /\ ~currentNotes[1].rest
    /\ currentNotes[2].rest

(***************************************************************************)
(* Further properties of the history.                                      *)
(***************************************************************************)

\* C38: a generation added to a history of 10 items evicts no favorite.
C38_FavoritesSurviveGrowth ==
    [][(ev'.op = "add" /\ Len(history) = 10) =>
          \A k \in DOMAIN history :
              history[k].isFavorite => history[k] \in Items(history')]_vars

\* The history h with the flag of the item at index (from 0) flipped.
FlippedAt(h, index) ==
    [k \in DOMAIN h |->
        IF k = index + 1
        THEN [id |-> h[k].id, isFavorite |-> ~h[k].isFavorite]
        ELSE h[k]]

\* C39: addToHistory puts the new generation, not a favorite, at index 0,
\* before the previous items in their order; toggleFavorite(i) flips the
\* flag of item i and changes nothing else, and two of them in a row give
\* back the history they began with.
C39_AddAndToggleFrame ==
    [][/\ ev'.op = "add" =>
            /\ Len(history') >= 1
            /\ ~history'[1].isFavorite
            /\ history'[1].id \notin { history[k].id : k \in DOMAIN history }
            /\ Tail(history') = SubSeq(history, 1, Len(history') - 1)
       /\ (ev'.op = "toggle" /\ ev'.index < Len(history)) =>
            history' = FlippedAt(history, ev'.index)
       /\ \A i \in 0..(Len(history) - 1) :
            ToggleResult(ToggleResult(history, i), i) = history]_vars

\* toggleFavorite(1) unmarked the second of three generations.
C39_Witness ==
    /\ ev.op = "toggle"
    /\ ev.index = 1
    /\ Len(history) = 3
    /\ ~history[2].isFavorite
    /\ history[1].id > history[2].id
    /\ history[2].id > history[3].id
(***************************************************************************)
(* The copy of the core in static/js/generation.js: parseABCNotation,      *)
(* noteToMIDI, getDefaultNotes, playAudio, playNotes, pauseAudio and       *)
(* stopAudio as that file defines them.  The operators carry the names of  *)
(* the operators above with a G at the end and are translated from the     *)
(* text of generation.js.                                                  *)
(***************************************************************************)
\* /[|:\[\]]/
BarCharsG == {"|", ":", "[", "]"}

\* /[{}~!+.]/
DecorationsG == {"{", "}", "~", "!", "+", "."}

\* /[A-Ga-g]/
NoteLettersG ==
    {"A", "B", "C", "D", "E", "F", "G", "a", "b", "c", "d", "e", "f", "g"}

\* /[\^_=]/
AccidentalsG == {"^", "_", "="}

\* /[',]/
OctaveMarksG == {"'", ","}

\* line.match(/^[A-Z]:/)
IsHeaderG(line) == Len(line) >= 2 /\ line[1] \in UpperCase /\ line[2] = ":"

\* line.trim() === ''
IsBlankG(line) == \A k \in 1..Len(line) : line[k] \in WhiteSpace

\* while (i < line.length && line[i] !== '"') i++
RECURSIVE CloseQuoteG(_, _)
CloseQuoteG(line, i) ==
    IF i <= Len(line) /\ line[i] # "\""
    THEN CloseQuoteG(line, i + 1)
    ELSE i

\* The optional duration at position i: its value and the position after it.
ParseDurationG(line, i) ==
    LET hasNum == i <= Len(line) /\ line[i] \in Digits
        whole  == IF hasNum THEN Quot(ParseInt(line[i]), 1) ELSE Quot(1, 1)
        j      == IF hasNum THEN i + 1 ELSE i
    IN  IF j <= Len(line) /\ line[j] = "/"
        THEN IF j + 1 <= Len(line) /\ line[j + 1] \in Digits
             THEN [duration |-> DivideDuration(whole, ParseInt(line[j + 1])),
                   next |-> j + 2]
             ELSE [duration |-> DivideDuration(whole, 2), next |-> j + 1]
        ELSE [duration |-> whole, next |-> j]

\* noteMap[baseNote] || 64
NoteMapG(baseNote) ==
    CASE baseNote = <<"D">> -> 62 [] baseNote = <<"E">> -> 64
      [] baseNote = <<"F">> -> 65 [] baseNote = <<"G">> -> 67
      [] baseNote = <<"A">> -> 69 [] baseNote = <<"B">> -> 71
      [] baseNote = <<"c">> -> 72 [] baseNote = <<"d">> -> 74
      [] baseNote = <<"e">> -> 76 [] baseNote = <<"f">> -> 77
      [] baseNote = <<"g">> -> 79 [] baseNote = <<"a">> -> 81
      [] baseNote = <<"b">> -> 83
      [] OTHER -> 64

noteToMIDIG(note) ==
    LET midi == NoteMapG(StripOctaveMarks(note))
                + 12 * CountChar(note, "'")
                - 12 * CountChar(note, ",")
    IN  Max(0, Min(127, midi))

getDefaultNotesG ==
    << [pitch |-> 64, duration |-> Quot(1, 1), rest |-> FALSE],
       [pitch |-> 67, duration |-> Quot(1, 1), rest |-> FALSE],
       [pitch |-> 69, duration |-> Quot(1, 1), rest |-> FALSE],
       [pitch |-> 71, duration |-> Quot(1, 1), rest |-> FALSE],
       [pitch |-> 76, duration |-> Quot(1, 1), rest |-> FALSE],
       [pitch |-> 79, duration |-> Quot(1, 1), rest |-> FALSE],
       [pitch |-> 81, duration |-> Quot(1, 1), rest |-> FALSE],
       [pitch |-> 83, duration |-> Quot(1, 1), rest |-> FALSE] >>

\* The while loop over the characters of a line, from position i.
RECURSIVE ScanLineG(_, _, _)
ScanLineG(line, i, notes) ==
    IF i > Len(line) THEN notes
    ELSE LET char == line[i] IN
      IF char = "\"" THEN ScanLineG(line, CloseQuoteG(line, i + 1) + 1, notes)
      ELSE IF char \in BarCharsG THEN ScanLineG(line, i + 1, notes)
      ELSE IF char = " " THEN ScanLineG(line, i + 1, notes)
      ELSE IF char \in DecorationsG THEN ScanLineG(line, i + 1, notes)
      ELSE IF char \in NoteLettersG
      THEN LET a    == SkipWhile(line, i + 1, AccidentalsG)
               o    == SkipWhile(line, a, OctaveMarksG)
               note == << char >> \o SubSeq(line, a, o - 1)
               d    == ParseDurationG(line, o)
           IN  ScanLineG(line, d.next,
                         Append(notes, [pitch |-> noteToMIDIG(note),
                                        duration |-> d.duration,
                                        rest |-> FALSE]))
      ELSE IF char = "z"
      THEN LET d == ParseDurationG(line, i + 1)
           IN  ScanLineG(line, d.next,
                         Append(notes, [pitch |-> 0,
                                        duration |-> d.duration,
                                        rest |-> TRUE]))
      ELSE ScanLineG(line, i + 1, notes)

\* The loop over the lines, from line k.
RECURSIVE ScanLinesG(_, _)
ScanLinesG(lines, k) ==
    IF k > Len(lines) THEN << >>
    ELSE IF IsHeaderG(lines[k]) \/ IsBlankG(lines[k])
         THEN ScanLinesG(lines, k + 1)
         ELSE ScanLineG(lines[k], 1, << >>) \o ScanLinesG(lines, k + 1)

\* return notes.length > 0 ? notes : getDefaultNotes()
parseABCNotationG(notation) ==
    LET notes == ScanLinesG(SplitLines(notation), 1)
    IN  IF Len(notes) > 0 THEN notes ELSE getDefaultNotesG

\* !notation || notation === <the placeholder>
NoInputG(notation) == notation = << >> \/ notation = Placeholder

\* The values after playAudio has announced playback, parsed and reset the cursor.
StartRunG(s, notation) ==
    [s EXCEPT !.isPlaying = TRUE,
              !.playbackStatus = Status("Playing", -1),
              !.playBtn = Disabled,
              !.pauseBtn = Enabled,
              !.stopBtn = Enabled,
              !.currentNotes = parseABCNotationG(notation),
              !.currentNoteIndex = 0,
              !.runLog = << >>]

\* The values after playAudio has found no notes.
NoNotesG(s) ==
    [s EXCEPT !.isPlaying = FALSE,
              !.playBtn = Enabled,
              !.pauseBtn = Disabled,
              !.stopBtn = Disabled,
              !.currentNoteIndex = currentNoteIndex,
              !.runLog = runLog]

\* The catch block of playAudio.
CatchPlaybackErrorG(s) ==
    [s EXCEPT !.isPlaying = FALSE,
              !.playBtn = Enabled,
              !.pauseBtn = Disabled,
              !.stopBtn = Disabled]

\* currentNoteIndex < totalNotes && isPlaying
LoopContinuesG(index, totalNotes, playing) == index < totalNotes /\ playing

\* !note.rest && note.pitch > 0
SoundsG(note) == ~note.rest /\ note.pitch > 0

\* Math.round(((currentNoteIndex + 1) / totalNotes) * 100), in doubles
\* (see Progress).
ProgressG(index, totalNotes) ==
    IF 40 * (index + 1) = 23 * totalNotes
    THEN 57
    ELSE (200 * (index + 1) + totalNotes) \div (2 * totalNotes)

\* currentNoteIndex++
AdvanceG(index) == index + 1

\* The end of playNotes when the loop ended while playing.
FinishPlaybackG(s) ==
    [s EXCEPT !.isPlaying = FALSE,
              !.playbackStatus = Status("Finished", -1),
              !.playBtn = Enabled,
              !.pauseBtn = Disabled,
              !.stopBtn = Disabled]

\* One pass of playNotes from the loop condition to the next wait or to
\* the end, on the values s: how it ends, whether it reads an event and
\* calls triggerAttackRelease, and the values it leaves.
LoopResultG(s, totalNotes, fault) ==
    IF LoopContinuesG(s.currentNoteIndex, totalNotes, s.isPlaying)
    THEN IF s.currentNoteIndex >= Len(s.currentNotes)
         THEN [outcome |-> "throw", read |-> FALSE, triggered |-> FALSE,
               progress |-> -1, after |-> CatchPlaybackErrorG(s)]
         ELSE LET note == s.currentNotes[s.currentNoteIndex + 1]
                  pct  == ProgressG(s.currentNoteIndex, totalNotes)
                  call == SoundsG(note)
              IN  IF call /\ (synth = "null" \/ fault)
                  THEN [outcome |-> "throw", read |-> TRUE,
                        triggered |-> synth # "null", progress |-> -1,
                        after |-> CatchPlaybackErrorG(s)]
                  ELSE [outcome |-> "sleep", read |-> TRUE,
                        triggered |-> call, progress |-> pct,
                        after |-> [s EXCEPT !.playbackStatus =
                                                 Status("Playing", pct)]]
    ELSE IF s.isPlaying
         THEN [outcome |-> "finished", read |-> FALSE, triggered |-> FALSE,
               progress |-> -1, after |-> FinishPlaybackG(s)]
         ELSE [outcome |-> "exit", read |-> FALSE, triggered |-> FALSE,
               progress |-> -1, after |-> s]

\* The values after a pauseAudio that ran to its end.
PauseResultG(s) ==
    [s EXCEPT !.isPlaying = FALSE,
              !.playbackStatus = Status("Paused", -1),
              !.playBtn = Enabled,
              !.pauseBtn = Disabled,
              !.stopBtn = Enabled]

\* The values after a stopAudio that ran to its end.
StopResultG(s) ==
    [s EXCEPT !.isPlaying = FALSE,
              !.currentNoteIndex = 0,
              !.playbackStatus = Status("Stopped", -1),
              !.playBtn = Enabled,
              !.pauseBtn = Disabled,
              !.stopBtn = Disabled]

\* What a pass of the playNotes of generation.js, made on the values s by
\* an activation (the others in flight are rest), leaves behind.
PassG(s, totalNotes, fault, rest) ==
    LET r == LoopResultG(s, totalNotes, fault)
    IN  /\ Current' = [r.after EXCEPT !.runLog =
                          IF r.read
                          THEN Append(s.runLog, LogEntry(s, totalNotes, r))
                          ELSE s.runLog]
        /\ calls' = IF r.outcome = "sleep"
                    THEN With(rest, Sleeping(totalNotes))
                    ELSE rest
        /\ ev'.outcome = r.outcome
        /\ ev'.triggered = r.triggered
        /\ ev'.released = 0
        /\ ev'.error = IF r.outcome = "throw" THEN "Playback failed" ELSE ""

\* The playAudio of generation.js from "isPlaying = true" on.
PlayBodyG(rest, notation, fault) ==
    LET s == StartRunG(Current, notation)
    IN  IF Len(s.currentNotes) = 0
        THEN /\ Current' = NoNotesG(s)
             /\ calls' = rest
             /\ ev'.outcome = "noNotes"
             /\ ~ev'.triggered
             /\ ev'.released = 0
             /\ ev'.error = "No valid notes found in notation"
        ELSE PassG(s, Len(s.currentNotes), fault, rest)

\* A call of the playAudio of generation.js, up to its first suspension or
\* its return.
PlayAudioG ==
    IF NoInputG(musicCode)
    THEN /\ Current' = Current
         /\ calls' = calls
         /\ ev'.outcome = "noInput"
         /\ ~ev'.triggered
         /\ ev'.released = 0
         /\ ev'.error = "No music to play"
    ELSE IF toneContext = "suspended"
    THEN /\ Current' = Current
         /\ calls' = With(calls, Awaiting(musicCode))
         /\ ev'.outcome = "await"
         /\ ~ev'.triggered
         /\ ev'.released = 0
         /\ ev'.error = ""
    ELSE \E fault \in BOOLEAN : PlayBodyG(calls, musicCode, fault)

\* pauseAudio and stopAudio of generation.js: isPlaying = false,
\* synth.triggerRelease(), then the assignments that give the values s.
ReleaseThenG(s) ==
    /\ calls' = calls
    /\ ~ev'.triggered
    /\ ev'.error = ""
    /\ IF synth = "null"
       THEN /\ Current' = [Current EXCEPT !.isPlaying = FALSE]
            /\ ev'.outcome = "throw"
            /\ ev'.released = 0
       ELSE /\ Current' = s
            /\ ev'.outcome = "returned"
            /\ ev'.released = 1

\* The step of the page made by the handler ev'.op, as the copies of
\* generation.js make it.
StepG ==
    /\ synth' = synth
    /\ page' = page
    /\ CASE ev'.op = "parse" ->
              /\ currentNotes' = parseABCNotationG(musicCode)
              /\ musicCode' = musicCode
         [] ev'.op = "play" ->
              /\ PlayAudioG
              /\ musicCode' = musicCode
              /\ toneContext' = toneContext
         [] ev'.op = "toneStarted" ->
              /\ \E a \in BagToSet(calls) :
                    /\ a.pc = "await"
                    /\ \E fault \in BOOLEAN :
                          PlayBodyG(Without(calls, a), a.notation, fault)
              /\ musicCode' = musicCode
              /\ toneContext' = "running"
         [] ev'.op = "toneStartFailed" ->
              /\ \E a \in BagToSet(calls) :
                    /\ a.pc = "await"
                    /\ calls' = Without(calls, a)
              /\ Current' = CatchPlaybackErrorG(Current)
              /\ ev'.outcome = "throw"
              /\ ev'.error = "Playback failed"
              /\ musicCode' = musicCode
              /\ toneContext' = toneContext
         [] ev'.op = "wake" ->
              /\ \E a \in BagToSet(calls) :
                    /\ a.pc = "sleep"
                    /\ \E fault \in BOOLEAN :
                          PassG([Current EXCEPT !.currentNoteIndex =
                                     AdvanceG(currentNoteIndex)],
                                a.totalNotes, fault, Without(calls, a))
              /\ musicCode' = musicCode
              /\ toneContext' = toneContext
         [] ev'.op = "pause" ->
              /\ ReleaseThenG(PauseResultG(Current))
              /\ musicCode' = musicCode
              /\ toneContext' = toneContext
         [] ev'.op = "stop" ->
              /\ ReleaseThenG(StopResultG(Current))
              /\ musicCode' = musicCode
              /\ toneContext' = toneContext
         [] OTHER ->
              /\ Current' = Current
              /\ calls' = calls
              /\ toneContext' = toneContext

(***************************************************************************)
(* Both cores on the same inputs: the tokenizer on the texts of the        *)
(* tokenizer specification, the scheduler on the notations of the          *)
(* playback specification, its handlers called in any order.               *)
(***************************************************************************)
InitCopies == InitParse \/ Init

\* The page shows one of the notations of the playback specification and
\* no tokenizer run was made on it.
OnPage == ev.op # "parse" /\ musicCode \in Notations \cup {Placeholder}

NextCopies ==
    \/ ~NoInput(musicCode) /\ ParseNotation
    \/ OnPage /\ PlayAudio
    \/ ToneStarted
    \/ ToneStartFailed
    \/ Wake
    \/ OnPage /\ PauseAudio
    \/ OnPage /\ StopAudio
    \/ \E notation \in Notations : OnPage /\ DisplayGeneration(notation)

SpecCopies == InitCopies /\ [][NextCopies]_vars

\* C40: the core of generation.js is equivalent to the core of
\* playback.js.  For every input text the tokenizer and pitch mapper of
\* generation.js return the event sequence playback.js returns, and every
\* step a transport handler or a wake-up of playback.js makes from a
\* reachable state (the values it leaves, the activations in flight, the
\* calls to the synthesizer and the error shown) is the step the copy in
\* generation.js makes from that state.
C40_CopiesEquivalent == [][StepG]_vars

\* A wake-up sounded the second event of a tune that both tokenizers read
\* alike and that is not the default sequence.
C40_Witness ==
    /\ ev.op = "wake"
    /\ ev.triggered
    /\ Len(runLog) = 2
    /\ currentNotes = parseABCNotationG(musicCode)
    /\ currentNotes # getDefaultNotesG

====
